---- MODULE Spec2Model ----
(***************************************************************************)
(* Model of the energy-consumption front-end:                              *)
(*   - the two proxy route handlers (GET dataset, POST predict),           *)
(*   - the predictor view (Home, handleSubmit and its rendering),          *)
(*   - the dataset view (DatasetPage, fetchDataset, pagination, LineGraph).*)
(* JSON values are tagged records: Num(n), Str(s), Obj(f); a JSON document *)
(* is [kind, fields] with kind "object", "null" or "unparsable".           *)
(***************************************************************************)
EXTENDS Integers, Sequences, FiniteSets, TLC

VARIABLES
    \* ---- proxy route handlers (one invocation at a time is observed)
    pc,          \* "idle" | "getWait" | "postWait" | "done"
    query,       \* GET: the client's query parameters page and limit
    body,        \* POST: the client's request body (a JSON document)
    calls,       \* the calls this invocation has made to the backend
    answer,      \* the outcome of the backend call, once it has arrived
    reply,       \* the response returned to the client
    \* ---- predictor view (Home)
    formData,    \* the form's four fields
    result,      \* PredictionResult | null
    loading,
    error,       \* string | null
    inFlight,    \* bodies of the fetch('/api/predict') calls not yet resolved
    \* ---- dataset view (DatasetPage)
    dataset,         \* DataRow[]
    dsLoading,       \* DatasetPage's loading
    dsError,         \* DatasetPage's error
    page,
    totalPages,
    limit,
    selectedMetric,
    filterType,
    dsInFlight       \* queries of the fetch('/api/dataset?..') calls not yet resolved

proxyVars == <<pc, query, body, calls, answer, reply>>
predVars == <<formData, result, loading, error, inFlight>>
dsVars == <<dataset, dsLoading, dsError, page, totalPages, limit,
            selectedMetric, filterType, dsInFlight>>

vars == <<proxyVars, predVars, dsVars>>

-----------------------------------------------------------------------------
(* Bounds of the model                                                     *)

\* Requests of one view awaiting their response at the same time: a user
\* action that would issue one more is held back until a response arrives.
MaxInFlight == 2

\* Rows of a dataset page loaded for the chart.
MaxRows == 3

-----------------------------------------------------------------------------
(* JSON values                                                             *)

Num(n) == [num |-> n]
Str(s) == [str |-> s]
Obj(f) == [obj |-> f]

IsNum(v) == DOMAIN v = {"num"}
IsStr(v) == DOMAIN v = {"str"}
IsObj(v) == DOMAIN v = {"obj"}

\* A JSON array of dataset rows (DataRow).
Arr(rows) == [arr |-> rows]

Row(bt, sqft, occ, app, energy) ==
    [building_type |-> bt, square_footage |-> sqft, number_of_occupants |-> occ,
     appliances_used |-> app, energy_consumption |-> energy]

RowA == Row("Residential", 1000, 4, 20, 10)
RowB == Row("Commercial", 1000, 9, 20, 10)
RowC == Row("Residential", 2000, 4, 5, 30)
RowD == Row("Warehouse", 1000, 4, 7, 10)

\* An empty object / absent field map.
NoFields == [k \in {} |-> Num(0)]

JObject(f) == [kind |-> "object", fields |-> f]
JNull == [kind |-> "null", fields |-> NoFields]
Unparsable == [kind |-> "unparsable", fields |-> NoFields]

\* JavaScript truthiness of a JSON value: 0 and "" are falsy.
Falsy(v) ==
    \/ IsNum(v) /\ v.num = 0
    \/ IsStr(v) /\ v.str = ""

\* All maps from a subset of the keys ks to values, vals[k] per key.
PartialMaps(ks, vals) ==
    LET all == UNION {vals[k] : k \in ks}
    IN  UNION { { f \in [S -> all] : \A k \in S : f[k] \in vals[k] } : S \in SUBSET ks }

-----------------------------------------------------------------------------
(* Responses of a route handler                                            *)

NoReply == [status |-> 0, json |-> JNull]
JsonReply(st, doc) == [status |-> st, json |-> doc]
ErrorReply(st, msg) == JsonReply(st, JObject([error |-> Str(msg)]))

\* Outcomes of one fetch() to the backend.
NetworkFailure == [failed |-> TRUE, ok |-> FALSE, json |-> Unparsable]
BackendAnswer(isOk, doc) == [failed |-> FALSE, ok |-> isOk, json |-> doc]

-----------------------------------------------------------------------------
(* The backend call a handler issues with fetch()                          *)

BackendCall(method, path, payload) ==
    [method |-> method, path |-> path, payload |-> payload]

-----------------------------------------------------------------------------
(* GET /api/dataset                                                        *)

\* A query parameter as searchParams.get() sees it: null when absent.
Absent == [present |-> FALSE, text |-> <<>>]
Given(t) == [present |-> TRUE, text |-> t]

\* searchParams.get(name) || dflt : null and '' are falsy, every other string
\* (numeric or not, '0' included) is truthy and is kept as it is.
\* Faulty variant: only an absent parameter gets the default, '' is sent on.
OrDefaultMutant(p, dflt) == IF p.present THEN p.text ELSE dflt
OrDefault(p, dflt) == IF p.present /\ p.text # <<>> THEN p.text ELSE dflt

DefaultPage == <<"1">>
DefaultLimit == <<"5", "0">>

\* `${BACKEND_URL}/dataset?page=${page}&limit=${limit}`
GetForward(q) ==
    BackendCall("GET", "/dataset",
                [page |-> OrDefault(q.page, DefaultPage),
                 limit |-> OrDefault(q.limit, DefaultLimit)])

GetFailure == ErrorReply(500, "Failed to fetch dataset from backend")

\* What GET returns for an outcome of its backend call.  fetch() rejecting,
\* !response.ok and response.json() rejecting all throw into the catch block;
\* so does the log statement data.data?.[0] when the parsed body is null.
GetRespond(outcome) ==
    IF outcome.failed \/ ~outcome.ok THEN GetFailure
    ELSE IF outcome.json.kind = "unparsable" THEN GetFailure
    ELSE IF outcome.json.kind = "null" THEN GetFailure
    ELSE JsonReply(200, outcome.json)

-----------------------------------------------------------------------------
(* POST /api/predict                                                       *)

PredictFields == {"building_type", "square_footage", "number_of_occupants", "appliances_used"}

\* !building_type || square_footage === undefined || ... (f: the body's fields)
MissingRequired(f) ==
    \/ "building_type" \notin DOMAIN f
    \/ Falsy(f["building_type"])
    \/ "square_footage" \notin DOMAIN f
    \/ "number_of_occupants" \notin DOMAIN f
    \/ "appliances_used" \notin DOMAIN f

PostFailure == ErrorReply(500, "Failed to get prediction from backend")
PostRejected == ErrorReply(400, "Missing required fields")

\* JSON.stringify({building_type, square_footage, number_of_occupants, appliances_used})
\* Faulty variant: the whole body is forwarded (JSON.stringify(body)).
PostForwardMutant(f) == BackendCall("POST", "/predict", f)
PostForward(f) ==
    BackendCall("POST", "/predict", [k \in PredictFields |-> f[k]])

\* x ?? dflt on a field of a parsed object: the field's value when it is there.
\* Faulty variant: x || dflt, which also replaces a supplied 0 or ''.
CoalesceMutant(f, k, dflt) == IF k \in DOMAIN f /\ ~Falsy(f[k]) THEN f[k] ELSE dflt
Coalesce(f, k, dflt) == IF k \in DOMAIN f THEN f[k] ELSE dflt

\* data.factors?.<k> ?? 0 for the four factor entries.
NormalizeFactors(d) ==
    LET g == IF "factors" \in DOMAIN d THEN d["factors"].obj ELSE NoFields
    IN  [k \in PredictFields |-> Coalesce(g, k, Num(0))]

\* normalizedResponse
Normalize(d) ==
    [energy_consumption |-> Coalesce(d, "energy_consumption", Num(0)),
     unit |-> Coalesce(d, "unit", Str("kWh")),
     factors |-> Obj(NormalizeFactors(d))]

\* What POST returns for an outcome of its backend call.  A parsed body of
\* null throws at data.energy_consumption and ends in the catch block.
PostRespond(outcome) ==
    IF outcome.failed \/ ~outcome.ok THEN PostFailure
    ELSE IF outcome.json.kind # "object" THEN PostFailure
    ELSE JsonReply(200, JObject(Normalize(outcome.json.fields)))

-----------------------------------------------------------------------------
(* Inputs of the proxy handlers                                            *)

QueryTexts == {<<>>, <<"2">>, <<"1", "0">>, <<"a", "b">>, <<"-", "1">>}
QueryParams == {Absent} \cup {Given(t) : t \in QueryTexts}
Queries == [page : QueryParams, limit : QueryParams]

\* Request bodies: unparsable, null, or an object holding any subset of the
\* four fields and of a fifth, "note", that the handler does not know.
ClientKeys == PredictFields \cup {"note"}
ClientValues ==
    [k \in ClientKeys |->
        CASE k = "building_type" -> {Str("Residential"), Str(""), Num(0)}
          [] k = "square_footage" -> {Num(0), Num(250)}
          [] k = "number_of_occupants" -> {Num(4)}
          [] k = "appliances_used" -> {Num(0), Num(20)}
          [] OTHER -> {Str("x")}]
ClientBodies ==
    {Unparsable, JNull} \cup {JObject(f) : f \in PartialMaps(ClientKeys, ClientValues)}

\* Backend answers to /predict: unparsable, null, or a
\* BackendPredictionResponse with any subset of its fields and factor entries.
FactorValues ==
    [k \in PredictFields |->
        CASE k = "building_type" -> {Num(1)}
          [] k = "square_footage" -> {Num(0)}
          [] k = "number_of_occupants" -> {Num(3)}
          [] OTHER -> {Num(4)}]
FactorObjects == {Obj(g) : g \in PartialMaps(PredictFields, FactorValues)}

PredictionKeys == {"energy_consumption", "unit", "factors"}
PredictionValues ==
    [k \in PredictionKeys |->
        CASE k = "energy_consumption" -> {Num(0), Num(3), Num(400)}
          [] k = "unit" -> {Str("kWh"), Str("MJ"), Str("")}
          [] OTHER -> FactorObjects]
PredictionDocs ==
    {Unparsable, JNull} \cup {JObject(d) : d \in PartialMaps(PredictionKeys, PredictionValues)}
PredictionOutcomes ==
    {NetworkFailure} \cup {BackendAnswer(isOk, doc) : isOk \in BOOLEAN, doc \in PredictionDocs}

DatasetDocs ==
    {Unparsable, JNull}
        \cup {JObject([data |-> Arr(rows), pages |-> Num(p)]) :
                rows \in {<<>>, <<RowA, RowC>>}, p \in {0, 3}}
DatasetOutcomes ==
    {NetworkFailure} \cup {BackendAnswer(isOk, doc) : isOk \in BOOLEAN, doc \in DatasetDocs}

-----------------------------------------------------------------------------
(* The handlers as steps: request in, backend call out, outcome in, reply  *)

NoAnswer == [failed |-> FALSE, ok |-> FALSE, json |-> Unparsable]

\* GET up to its await fetch(...)
GetReceive(q) ==
    /\ pc = "idle"
    /\ query' = q
    /\ calls' = Append(calls, GetForward(q))
    /\ pc' = "getWait"
    /\ UNCHANGED <<body, answer, reply, predVars, dsVars>>

\* GET from the backend's answer to its return
GetFinish(outcome) ==
    /\ pc = "getWait"
    /\ answer' = outcome
    /\ reply' = GetRespond(outcome)
    /\ pc' = "getDone"
    /\ UNCHANGED <<query, body, calls, predVars, dsVars>>

\* POST before its backend call: the reply when it ends there (request.json()
\* rejecting or the destructuring of a null body throwing: the catch block;
\* a missing field: the early return), NoReply when it goes on to fetch().
PostEarly(b) ==
    IF b.kind # "object" THEN PostFailure
    ELSE IF MissingRequired(b.fields) THEN PostRejected
    ELSE NoReply

\* POST up to its await fetch(...), or to its early return / catch block
PostReceive(b) ==
    /\ pc = "idle"
    /\ body' = b
    /\ IF PostEarly(b) # NoReply
       THEN /\ reply' = PostEarly(b)
            /\ pc' = "postDone"
            /\ UNCHANGED calls
       ELSE /\ calls' = Append(calls, PostForward(b.fields))
            /\ pc' = "postWait"
            /\ UNCHANGED reply
    /\ UNCHANGED <<query, answer, predVars, dsVars>>

\* POST from the backend's answer to its return
PostFinish(outcome) ==
    /\ pc = "postWait"
    /\ answer' = outcome
    /\ reply' = PostRespond(outcome)
    /\ pc' = "postDone"
    /\ UNCHANGED <<query, body, calls, predVars, dsVars>>

ProxyInit ==
    /\ pc = "idle"
    /\ query = [page |-> Absent, limit |-> Absent]
    /\ body = JNull
    /\ calls = <<>>
    /\ answer = NoAnswer
    /\ reply = NoReply

\* The invocation is over; the handlers keep no state between requests.
HandlerReturn ==
    /\ pc \in {"getDone", "postDone"}
    /\ pc' = "idle"
    /\ query' = [page |-> Absent, limit |-> Absent]
    /\ body' = JNull
    /\ calls' = <<>>
    /\ answer' = NoAnswer
    /\ reply' = NoReply
    /\ UNCHANGED <<predVars, dsVars>>

ProxyNext ==
    \/ \E q \in Queries : GetReceive(q)
    \/ \E o \in DatasetOutcomes : GetFinish(o)
    \/ \E b \in ClientBodies : PostReceive(b)
    \/ \E o \in PredictionOutcomes : PostFinish(o)
    \/ HandlerReturn

-----------------------------------------------------------------------------
(* Predictor view: Home                                                    *)

NoError == [set |-> FALSE, message |-> ""]
ErrorOf(msg) == [set |-> TRUE, message |-> msg]

DefaultForm ==
    [building_type |-> Str("Residential"), square_footage |-> Num(250),
     number_of_occupants |-> Num(4), appliances_used |-> Num(20)]

\* The values the form's controls are set to.
FormValues(k) ==
    CASE k = "building_type" -> {Str("Residential"), Str("Commercial")}
      [] k = "square_footage" -> {Num(250), Num(0)}
      [] k = "number_of_occupants" -> {Num(4)}
      [] OTHER -> {Num(20), Num(0)}

\* What the browser's fetch('/api/predict') resolves to: the reply of the
\* POST handler run on the body sent and on the outcome of its backend call.
PostHandler(b, outcome) ==
    IF PostEarly(b) # NoReply THEN PostEarly(b) ELSE PostRespond(outcome)

\* The browser could not reach the proxy: fetch() rejects.
Unreachable == [status |-> 0, json |-> Unparsable]

ResponseOk(r) == r.status >= 200 /\ r.status <= 299

PredInit ==
    /\ formData = DefaultForm
    /\ result = JNull
    /\ loading = FALSE
    /\ error = NoError
    /\ inFlight = <<>>

\* handleChange: one control of the form changes
HandleChange(name, value) ==
    /\ formData[name] # value
    /\ formData' = [formData EXCEPT ![name] = value]
    /\ UNCHANGED <<result, loading, error, inFlight, proxyVars, dsVars>>

\* Faulty variant: the button is never disabled.
SubmitAlways == Len(inFlight) < MaxInFlight
\* The submit button is disabled while loading, and a form whose submit button
\* is disabled is not submitted by the Enter key either.
SubmitEnabled == ~loading

\* handleSubmit up to its await fetch(...)
HandleSubmit ==
    /\ SubmitEnabled
    /\ loading' = TRUE
    /\ error' = NoError
    /\ result' = JNull
    /\ inFlight' = Append(inFlight, JObject(formData))
    /\ UNCHANGED <<formData, proxyVars, dsVars>>

RemoveAt(s, i) == [j \in 1..(Len(s) - 1) |-> IF j < i THEN s[j] ELSE s[j + 1]]

\* handleSubmit from the response r of its fetch to the end of finally
SubmitSettle(r) ==
    /\ IF r = Unreachable
       THEN /\ error' = ErrorOf("Failed to fetch")
            /\ UNCHANGED result
       ELSE IF ~ResponseOk(r)
       THEN /\ error' = ErrorOf("Failed to get prediction")
            /\ UNCHANGED result
       ELSE /\ result' = r.json
            /\ UNCHANGED error
    /\ loading' = FALSE

\* The response to the i-th request in flight arrives.
SubmitResolve(i, r) ==
    /\ i \in 1..Len(inFlight)
    /\ SubmitSettle(r)
    /\ inFlight' = RemoveAt(inFlight, i)
    /\ UNCHANGED <<formData, proxyVars, dsVars>>

PredictReplies(b) ==
    {Unreachable} \cup {PostHandler(b, o) : o \in PredictionOutcomes}

PredNext ==
    \/ \E k \in PredictFields : \E v \in FormValues(k) : HandleChange(k, v)
    \/ HandleSubmit
    \/ \E i \in 1..Len(inFlight) : \E r \in PredictReplies(inFlight[i]) : SubmitResolve(i, r)

-----------------------------------------------------------------------------
(* Rendering of the result                                                 *)

\* x.toFixed(2) of the non-negative quotient n / d: the hundredths, rounded
\* half up, written as whole part and two decimals.
ToFixed2(n, d) ==
    LET h == (2 * 100 * n + d) \div (2 * d)
    IN  [whole |-> h \div 100, decimals |-> h % 100]

\* result.unit || 'kWh'
UnitOrDefault(r) ==
    IF "unit" \in DOMAIN r /\ ~Falsy(r["unit"]) THEN r["unit"].str ELSE "kWh"

\* Faulty variant: the figure under the form divides by 12.
FormCardMonthlyMutant ==
    [value |-> ToFixed2(result.fields["energy_consumption"].num, 12),
     unit |-> UnitOrDefault(result.fields)]

\* The figure under the form:
\* {(result.energy_consumption/4).toFixed(2)} {result.unit || 'kWh'}
FormCardMonthly ==
    [value |-> ToFixed2(result.fields["energy_consumption"].num, 4),
     unit |-> UnitOrDefault(result.fields)]

\* The figure of the Prediction Results card, written the same way.
ResultsCardMonthly ==
    [value |-> ToFixed2(result.fields["energy_consumption"].num, 4),
     unit |-> UnitOrDefault(result.fields)]

\* {error && ...} and {result && ...}
ErrorShown == error.set /\ error.message # ""
ResultShown == result.kind = "object"

-----------------------------------------------------------------------------
(* The backend's dataset listing, as the interface contract gives it       *)

CeilDiv(a, b) == (a + b - 1) \div b

DigitValue(c) ==
    CASE c = "0" -> 0 [] c = "1" -> 1 [] c = "2" -> 2 [] c = "3" -> 3 [] c = "4" -> 4
      [] c = "5" -> 5 [] c = "6" -> 6 [] c = "7" -> 7 [] c = "8" -> 8 [] OTHER -> 9

RECURSIVE ParseDigits(_)
ParseDigits(t) ==
    IF t = <<>> THEN 0
    ELSE 10 * ParseDigits(SubSeq(t, 1, Len(t) - 1)) + DigitValue(t[Len(t)])

\* GET /dataset?page=&limit= -> {data, total, page, limit, pages}, with
\* pages = ceil(total / limit), for a dataset of `total` rows.
BackendDataset(call, total, rows) ==
    LET l == ParseDigits(call.payload.limit)
    IN  JObject([data |-> Arr(rows),
                 total |-> Num(total),
                 page |-> Num(ParseDigits(call.payload.page)),
                 limit |-> Num(l),
                 pages |-> Num(CeilDiv(total, l))])

\* Sizes of the backend's dataset, and the rows one of its pages may hold.
Totals == {0, 127}
PageRows(total) == IF total = 0 THEN {<<>>} ELSE {<<RowA, RowB>>, <<RowC>>}

-----------------------------------------------------------------------------
(* Dataset view: DatasetPage                                               *)

LimitOptions == {50, 100, 200, 500}
MetricOptions == {"energy_consumption", "square_footage", "number_of_occupants", "appliances_used"}
FilterOptions == {"all", "Residential", "Commercial", "Industrial"}

DigitOf(n) ==
    CASE n = 0 -> "0" [] n = 1 -> "1" [] n = 2 -> "2" [] n = 3 -> "3" [] n = 4 -> "4"
      [] n = 5 -> "5" [] n = 6 -> "6" [] n = 7 -> "7" [] n = 8 -> "8" [] OTHER -> "9"

\* ${n} in a template literal: the decimal digits of a non-negative integer.
RECURSIVE ToText(_)
ToText(n) == IF n < 10 THEN <<DigitOf(n)>> ELSE Append(ToText(n \div 10), DigitOf(n % 10))

\* `/api/dataset?page=${page}&limit=${limit}`
DatasetQuery(p, l) == [page |-> Given(ToText(p)), limit |-> Given(ToText(l))]

\* What the browser's fetch of that URL resolves to: the reply of the GET
\* handler run on the query and on the outcome of its backend call.
GetHandler(q, outcome) == GetRespond(outcome)

Max(a, b) == IF a >= b THEN a ELSE b
Min(a, b) == IF a <= b THEN a ELSE b

\* useState initial values, and the fetch the effect issues on mount.
DsInit ==
    /\ dataset = <<>>
    /\ dsLoading = TRUE
    /\ dsError = NoError
    /\ page = 1
    /\ totalPages = 1
    /\ limit = 100
    /\ selectedMetric = "energy_consumption"
    /\ filterType = "all"
    /\ dsInFlight = <<DatasetQuery(1, 100)>>

\* fetchDataset up to its await fetch(...), run by the effect for the page p
\* and limit l of the render that follows the state change.
\* Faulty variant: the request is built with the page of the previous render.
FetchDatasetMutant(p, l) ==
    /\ dsLoading' = TRUE
    /\ dsError' = NoError
    /\ dsInFlight' = Append(dsInFlight, DatasetQuery(page, l))
    /\ UNCHANGED <<dataset, totalPages>>
FetchDataset(p, l) ==
    /\ dsLoading' = TRUE
    /\ dsError' = NoError
    /\ dsInFlight' = Append(dsInFlight, DatasetQuery(p, l))
    /\ UNCHANGED <<dataset, totalPages>>

\* Faulty variant: the effect also depends on selectedMetric and filterType.
EffectOnAnyChange ==
    IF \/ page' # page \/ limit' # limit
       \/ (selectedMetric' # selectedMetric \/ filterType' # filterType)
            /\ Len(dsInFlight) < MaxInFlight
    THEN FetchDataset(page', limit')
    ELSE UNCHANGED <<dataset, totalPages, dsLoading, dsError, dsInFlight>>

\* useEffect(..., [page, limit]): the effect runs when page or limit changed.
EffectOnPageLimit ==
    IF page' # page \/ limit' # limit
    THEN FetchDataset(page', limit')
    ELSE UNCHANGED <<dataset, totalPages, dsLoading, dsError, dsInFlight>>

\* Previous: onClick={() => setPage(Math.max(1, page - 1))}, disabled={page === 1}
ClickPrevious ==
    /\ page # 1
    /\ Len(dsInFlight) < MaxInFlight
    /\ page' = Max(1, page - 1)
    /\ UNCHANGED <<limit, selectedMetric, filterType>>
    /\ EffectOnPageLimit
    /\ UNCHANGED <<proxyVars, predVars>>

\* Next: onClick={() => setPage(Math.min(totalPages, page + 1))},
\* disabled={page === totalPages}
ClickNext ==
    /\ page # totalPages
    /\ Len(dsInFlight) < MaxInFlight
    /\ page' = Min(totalPages, page + 1)
    /\ UNCHANGED <<limit, selectedMetric, filterType>>
    /\ EffectOnPageLimit
    /\ UNCHANGED <<proxyVars, predVars>>

\* The limit select: setLimit(Number(e.target.value)); setPage(1); both
\* updates are applied in one render, after which the effect runs once.
ChangeLimit(l) ==
    /\ l # limit
    /\ Len(dsInFlight) < MaxInFlight
    /\ limit' = l
    /\ page' = 1
    /\ UNCHANGED <<selectedMetric, filterType>>
    /\ EffectOnPageLimit
    /\ UNCHANGED <<proxyVars, predVars>>

\* setSelectedMetric(e.target.value)
ChangeMetric(m) ==
    /\ m # selectedMetric
    /\ selectedMetric' = m
    /\ UNCHANGED <<page, limit, filterType>>
    /\ EffectOnPageLimit
    /\ UNCHANGED <<proxyVars, predVars>>

\* setFilterType(e.target.value)
ChangeFilter(f) ==
    /\ f # filterType
    /\ filterType' = f
    /\ UNCHANGED <<page, limit, selectedMetric>>
    /\ EffectOnPageLimit
    /\ UNCHANGED <<proxyVars, predVars>>

\* Faulty variant: a failed fetch also empties the rows (setDataset([])).
FetchSettleClearing(r) ==
    /\ IF r = Unreachable
       THEN /\ dsError' = ErrorOf("Failed to fetch")
            /\ dataset' = <<>>
            /\ UNCHANGED totalPages
       ELSE IF ~ResponseOk(r)
       THEN /\ dsError' = ErrorOf("Failed to fetch dataset")
            /\ dataset' = <<>>
            /\ UNCHANGED totalPages
       ELSE /\ dataset' = r.json.fields["data"].arr
            /\ totalPages' = r.json.fields["pages"].num
            /\ UNCHANGED dsError
    /\ dsLoading' = FALSE

\* Faulty variant: a response is applied only when it answers the page and
\* limit now selected; any other response just ends loading.
FetchSettleMutant(r) ==
    /\ IF r = Unreachable
       THEN /\ dsError' = ErrorOf("Failed to fetch")
            /\ UNCHANGED <<dataset, totalPages>>
       ELSE IF ~ResponseOk(r)
       THEN /\ dsError' = ErrorOf("Failed to fetch dataset")
            /\ UNCHANGED <<dataset, totalPages>>
       ELSE IF r.json.fields["page"].num = page /\ r.json.fields["limit"].num = limit
       THEN /\ dataset' = r.json.fields["data"].arr
            /\ totalPages' = r.json.fields["pages"].num
            /\ UNCHANGED dsError
       ELSE UNCHANGED <<dataset, totalPages, dsError>>
    /\ dsLoading' = FALSE

\* fetchDataset from the response r of its fetch to the end of finally
FetchSettle(r) ==
    /\ IF r = Unreachable
       THEN /\ dsError' = ErrorOf("Failed to fetch")
            /\ UNCHANGED <<dataset, totalPages>>
       ELSE IF ~ResponseOk(r)
       THEN /\ dsError' = ErrorOf("Failed to fetch dataset")
            /\ UNCHANGED <<dataset, totalPages>>
       ELSE /\ dataset' = r.json.fields["data"].arr
            /\ totalPages' = r.json.fields["pages"].num
            /\ UNCHANGED dsError
    /\ dsLoading' = FALSE

\* The response to the i-th dataset request in flight arrives.
FetchResolve(i, r) ==
    /\ i \in 1..Len(dsInFlight)
    /\ FetchSettle(r)
    /\ dsInFlight' = RemoveAt(dsInFlight, i)
    /\ UNCHANGED <<page, limit, selectedMetric, filterType, proxyVars, predVars>>

DatasetReplies(q) ==
    {Unreachable, GetHandler(q, NetworkFailure)}
        \cup UNION {{GetHandler(q, BackendAnswer(TRUE, BackendDataset(GetForward(q), t, rows))) :
                        rows \in PageRows(t)} : t \in Totals}

\* The metric and filter choices exercised together with pagination; the
\* chart is checked over all of MetricOptions and FilterOptions (ChartNext).
PagedMetrics == {"energy_consumption", "square_footage"}
PagedFilters == {"all", "Residential"}

DsNext ==
    \/ ClickPrevious
    \/ ClickNext
    \/ \E l \in LimitOptions : ChangeLimit(l)
    \/ \E m \in PagedMetrics : ChangeMetric(m)
    \/ \E f \in PagedFilters : ChangeFilter(f)
    \/ \E i \in 1..Len(dsInFlight) : \E r \in DatasetReplies(dsInFlight[i]) : FetchResolve(i, r)

-----------------------------------------------------------------------------
(* Dataset view: the chart (LineGraph).  Coordinates are exact fractions   *)
(* [n, d] standing for n / d.                                              *)

width == 1000
height == 500
paddingTop == 40
paddingRight == 60
paddingBottom == 60
paddingLeft == 80
chartWidth == width - paddingLeft - paddingRight
chartHeight == height - paddingTop - paddingBottom

\* getFilteredData
GetFilteredData ==
    IF filterType = "all" THEN dataset
    ELSE SelectSeq(dataset, LAMBDA row : row.building_type = filterType)

\* filteredData.map(row => row[selectedMetric])
MetricValues == [i \in 1..Len(GetFilteredData) |-> GetFilteredData[i][selectedMetric]]

\* Math.max(...values), Math.min(...values)
maxValue == CHOOSE v \in {MetricValues[i] : i \in 1..Len(MetricValues)} :
                \A j \in 1..Len(MetricValues) : MetricValues[j] <= v
minValue == CHOOSE v \in {MetricValues[i] : i \in 1..Len(MetricValues)} :
                \A j \in 1..Len(MetricValues) : MetricValues[j] >= v

\* maxValue - minValue || 1
range == IF maxValue - minValue = 0 THEN 1 ELSE maxValue - minValue

\* padding.left + (i / (filteredData.length - 1 || 1)) * chartWidth, i from 0
PointX(i) ==
    LET den == IF Len(GetFilteredData) - 1 = 0 THEN 1 ELSE Len(GetFilteredData) - 1
    IN  [n |-> paddingLeft * den + i * chartWidth, d |-> den]

\* padding.top + chartHeight - ((value - minValue) / range) * chartHeight
\* Faulty variant: the y axis is not inverted.
PointYMutant(value) ==
    [n |-> paddingTop * range + (value - minValue) * chartHeight, d |-> range]
PointY(value) ==
    [n |-> (paddingTop + chartHeight) * range - (value - minValue) * chartHeight,
     d |-> range]

\* points (the empty sequence where LineGraph returns null)
LineGraph ==
    [i \in 1..Len(GetFilteredData) |->
        [x |-> PointX(i - 1),
         y |-> PointY(GetFilteredData[i][selectedMetric]),
         value |-> GetFilteredData[i][selectedMetric],
         buildingType |-> GetFilteredData[i].building_type]]

\* {error && ...}: the error box of the dataset view
DsErrorShown == dsError.set /\ dsError.message # ""

\* {loading ? ... : dataset.length === 0 ? ... : <LineGraph />}
ChartShown == ~dsLoading /\ Len(dataset) # 0 /\ Len(GetFilteredData) # 0

\* The pages of up to MaxRows rows the backend may serve.
RECURSIVE RowSeqs(_)
RowSeqs(n) ==
    IF n = 0 THEN {<<>>}
    ELSE RowSeqs(n - 1) \cup
         {Append(rows, r) : rows \in {q \in RowSeqs(n - 1) : Len(q) = n - 1},
                            r \in {RowA, RowB, RowC, RowD}}

ChartReplies(q) ==
    {GetHandler(q, BackendAnswer(TRUE, BackendDataset(GetForward(q), 127, rows))) :
        rows \in RowSeqs(MaxRows)}

\* The chart over every page the first fetch may load, under every choice of
\* metric and filter.
ChartNext ==
    \/ \E m \in MetricOptions : ChangeMetric(m)
    \/ \E f \in FilterOptions : ChangeFilter(f)
    \/ \E i \in 1..Len(dsInFlight) : \E r \in ChartReplies(dsInFlight[i]) : FetchResolve(i, r)

-----------------------------------------------------------------------------
(* Specifications                                                          *)

Init == ProxyInit /\ PredInit /\ DsInit

ProxySpec == Init /\ [][ProxyNext]_vars

PredictorSpec == Init /\ [][PredNext]_vars

DatasetSpec == Init /\ [][DsNext]_vars

ChartSpec == Init /\ [][ChartNext]_vars

\* Home and DatasetPage are the pages of two routes, and the browser shows
\* one of them: a behaviour is a run of the predictor view, the dataset view
\* not having moved, or a run of the dataset view.
ViewsNext ==
    \/ DsInit /\ PredNext
    \/ PredInit /\ DsNext

ViewsSpec == Init /\ [][ViewsNext]_vars

-----------------------------------------------------------------------------
(* Claims about the proxy handlers (ProxySpec)                             *)

\* The claims' own reading of "a required field is missing": building_type
\* absent or falsy, or one of the three numeric fields absent.  A body without
\* fields at all (JSON null) misses every one of them.
LacksRequired(b) ==
    \/ "building_type" \notin DOMAIN b.fields
    \/ Falsy(b.fields["building_type"])
    \/ \E k \in PredictFields : k \notin DOMAIN b.fields

\* C1: every parsed request body that lacks a required field is answered 400
\* 'Missing required fields' without a backend call, and a body holding all
\* four (numeric 0 included) is never answered 400.
C1_MissingFieldsRejected ==
    (pc \in {"postWait", "postDone"} /\ body.kind # "unparsable") =>
        IF LacksRequired(body)
        THEN pc = "postDone" /\ reply = PostRejected /\ calls = <<>>
        ELSE reply.status # 400

\* C2: a body that passes validation leads to exactly one backend call, to
\* /predict, whose payload holds exactly the four fields with the client's
\* values: nothing else of the body is forwarded, nothing dropped or altered.
C2_ForwardsExactlyFour ==
    (pc \in {"postWait", "postDone"} /\ body.kind = "object" /\ ~LacksRequired(body)) =>
        /\ Len(calls) = 1
        /\ calls[1].method = "POST" /\ calls[1].path = "/predict"
        /\ DOMAIN calls[1].payload = PredictFields
        /\ \A k \in PredictFields : calls[1].payload[k] = body.fields[k]

C2_Witness ==
    /\ pc = "postWait"
    /\ "note" \in DOMAIN body.fields
    /\ body.fields["square_footage"] = Num(0)
    /\ "note" \notin DOMAIN calls[1].payload

BackendFailed(o) == o.failed \/ ~o.ok \/ o.json.kind = "unparsable"

\* C4: a failed backend call (network failure, non-2xx, unparsable body) is
\* answered 500 with the handler's fixed error body; a successful call of the
\* dataset handler is answered with the backend's JSON body unchanged; no
\* invocation calls the backend more than once.
C4_FailureGenericSuccessRelayed ==
    /\ Len(calls) <= 1
    /\ (pc = "getDone" /\ BackendFailed(answer)) => reply = GetFailure
    /\ (pc = "postDone" /\ calls # <<>> /\ BackendFailed(answer)) => reply = PostFailure
    /\ (pc = "getDone" /\ ~BackendFailed(answer)) => reply = JsonReply(200, answer.json)

Digits == {"0", "1", "2", "3", "4", "5", "6", "7", "8", "9"}

\* A string-encoded integer: digits, after an optional sign.
IsIntegerText(t) ==
    LET u == IF Len(t) > 0 /\ t[1] = "-" THEN Tail(t) ELSE t
    IN  Len(u) > 0 /\ \A i \in 1..Len(u) : u[i] \in Digits

WellFormed(p) == p.present /\ IsIntegerText(p.text)

\* C5 as stated: the page and limit sent to the backend are the client's when
\* these are string-encoded integers and the defaults "1" and "50" when the
\* parameter is absent or malformed.
C5_MalformedReplacedByDefault ==
    pc \in {"getWait", "getDone"} =>
        /\ calls[1].payload.page =
             (IF WellFormed(query.page) THEN query.page.text ELSE DefaultPage)
        /\ calls[1].payload.limit =
             (IF WellFormed(query.limit) THEN query.limit.text ELSE DefaultLimit)

\* C5 amended: the defaults "1" and "50" replace a parameter that is absent or
\* empty; every non-empty value, integer or not, is sent on as it is.
C5_EmptyReplacedByDefault ==
    pc \in {"getWait", "getDone"} =>
        /\ Len(calls) = 1
        /\ calls[1].payload.page =
             (IF query.page.present /\ query.page.text # <<>>
              THEN query.page.text ELSE DefaultPage)
        /\ calls[1].payload.limit =
             (IF query.limit.present /\ query.limit.text # <<>>
              THEN query.limit.text ELSE DefaultLimit)

C5_Witness ==
    /\ pc = "getWait"
    /\ query.page = Given(<<"a", "b">>)
    /\ query.limit = Given(<<>>)
    /\ calls[1].payload = [page |-> <<"a", "b">>, limit |-> <<"5", "0">>]

-----------------------------------------------------------------------------
(* Claims about the predictor view (PredictorSpec)                         *)

\* C8: error and result are never held together, and every response that
\* arrives leaves either the error set with no result (a failure) or a result
\* with no error (a success).
C8_ErrorExcludesResult ==
    /\ [](~(error.set /\ result.kind = "object"))
    /\ [](~(ErrorShown /\ ResultShown))
    /\ [][Len(inFlight') < Len(inFlight) =>
            \/ error'.set /\ ErrorShown' /\ result' = JNull
            \/ ~error'.set /\ ResultShown']_vars

C8_Witness ==
    /\ error = ErrorOf("Failed to get prediction")
    /\ result = JNull
    /\ ~loading
    /\ inFlight = <<>>

\* C10: whenever a result is shown, both renderings of the monthly figure
\* are energy_consumption / 4 to two decimals with the result's unit ('kWh'
\* when it has none); a backend answer {energy_consumption: 400, unit: 'kWh'}
\* to the default form is shown as 100.00 kWh.
C10_MonthlyIsQuarter ==
    ResultShown =>
        LET e == result.fields["energy_consumption"].num
            u == result.fields["unit"].str
        IN  /\ \A shown \in {FormCardMonthly, ResultsCardMonthly} :
                 /\ 100 * shown.value.whole + shown.value.decimals = 25 * e
                 /\ shown.value.decimals \in 0..99
                 /\ shown.unit = (IF u = "" THEN "kWh" ELSE u)
            /\ result.fields = Normalize([energy_consumption |-> Num(400), unit |-> Str("kWh")])
                 => /\ FormCardMonthly = [value |-> [whole |-> 100, decimals |-> 0], unit |-> "kWh"]
                    /\ ResultsCardMonthly = FormCardMonthly

C10_Witness ==
    /\ formData = DefaultForm
    /\ ~loading
    /\ result.kind = "object"
    /\ result.fields = Normalize([energy_consumption |-> Num(400), unit |-> Str("kWh")])
    /\ ResultsCardMonthly = [value |-> [whole |-> 100, decimals |-> 0], unit |-> "kWh"]

-----------------------------------------------------------------------------
(* Claims about the dataset view (DatasetSpec, ChartSpec)                  *)

\* C6: the current page always lies between 1 and the page count last stored
\* from the backend.
C6_PageWithinPages == 1 <= page /\ page <= totalPages

\* C7: a limit change resets page to 1 and issues, in the same step, exactly
\* one fetch, which carries page 1 and the new limit; every fetch issued
\* carries the page and limit of the state it is issued in, so none combines a
\* new limit with the page current before the change.
C7_LimitChangeFetchesPageOne ==
    [][/\ limit' # limit =>
            /\ page' = 1
            /\ Len(dsInFlight') = Len(dsInFlight) + 1
            /\ dsInFlight'[Len(dsInFlight')] = DatasetQuery(1, limit')
       /\ Len(dsInFlight') > Len(dsInFlight) =>
            /\ Len(dsInFlight') = Len(dsInFlight) + 1
            /\ SubSeq(dsInFlight', 1, Len(dsInFlight)) = dsInFlight
            /\ dsInFlight'[Len(dsInFlight')] = DatasetQuery(page', limit')]_vars

C7_Witness ==
    /\ Len(dsInFlight) = 2
    /\ dsInFlight[1] = DatasetQuery(2, 100)
    /\ dsInFlight[2] = DatasetQuery(1, 500)
    /\ limit = 500
    /\ page = 1

ConstantSeries ==
    ChartShown /\ \A i \in 1..Len(MetricValues) : MetricValues[i] = MetricValues[1]

\* C9 as stated: for a constant series every point's y is the vertical centre
\* of the chart area, 40 + 400 / 2 = 240.
C9_ConstantSeriesAtCentre ==
    ConstantSeries =>
        /\ range = 1
        /\ \A i \in 1..Len(LineGraph) : LineGraph[i].y.n = 240 * LineGraph[i].y.d

\* C9 amended: for a constant series range falls back to 1 (no division by
\* zero) and every point's y is the bottom of the chart area, 40 + 400 = 440.
C9_ConstantSeriesAtBottom ==
    ConstantSeries =>
        /\ range = 1
        /\ Len(LineGraph) = Len(GetFilteredData)
        /\ \A i \in 1..Len(LineGraph) :
             /\ LineGraph[i].y.d = 1
             /\ LineGraph[i].y.n = paddingTop + chartHeight
             /\ LineGraph[i].y.n = 440

C9_Witness ==
    /\ ConstantSeries
    /\ dataset = <<RowA, RowB, RowC>>
    /\ filterType = "Residential"
    /\ selectedMetric = "number_of_occupants"
    /\ Len(GetFilteredData) = 2
    /\ minValue = 4 /\ maxValue = 4
    /\ \A i \in 1..Len(LineGraph) : LineGraph[i].y = [n |-> 440, d |-> 1]

-----------------------------------------------------------------------------
(* Claims about the requests of both views (ViewsSpec)                     *)

\* From one state to the next the requests pending are the same, or one more
\* at the end, or the same but one: none is dropped by a new request.
PendingKept(before, after) ==
    \/ after = before
    \/ Len(after) = Len(before) + 1 /\ SubSeq(after, 1, Len(before)) = before
    \/ \E i \in 1..Len(before) : after = RemoveAt(before, i)

-----------------------------------------------------------------------------
(* Claims about a failed dataset fetch (DatasetSpec)                       *)

\* C12 as stated: once a fetch has failed and loading has ended, the error is
\* shown and no rows are presented: the rows are displayed as empty and no
\* chart stands beside the error.
C12_FailureShowsNoRows ==
    (dsError.set /\ ~dsLoading) => DsErrorShown /\ Len(dataset) = 0 /\ ~ChartShown

\* C12 amended: the response that sets the error ends loading and leaves the
\* rows and the page count as they were, so the error is shown together with
\* the chart of the rows loaded last whenever there are such rows to chart,
\* and with 'No data available' only when no rows were held (as after a
\* failure of the first fetch).
C12_FailureKeepsRows ==
    [][(Len(dsInFlight') < Len(dsInFlight) /\ ~dsError.set /\ dsError'.set) =>
            /\ DsErrorShown'
            /\ ~dsLoading'
            /\ dataset' = dataset
            /\ totalPages' = totalPages
            /\ ChartShown' = (Len(GetFilteredData) # 0)
            /\ (Len(dataset) = 0 => ~ChartShown')]_vars

\* The fetch of page 2 has failed after page 1 had been loaded: the error
\* stands above the chart of the rows of page 1.
C12_Witness ==
    /\ dsInFlight = <<>>
    /\ DsErrorShown
    /\ ~dsLoading
    /\ page = 2
    /\ limit = 100
    /\ totalPages = 2
    /\ dataset = <<RowA, RowB>>
    /\ ChartShown

-----------------------------------------------------------------------------
(* Claims about the filter and metric selects (ChartSpec)                  *)

\* The positions, in the page loaded, of the rows the filter lets through.
Matching ==
    {i \in 1..Len(dataset) : filterType = "all" \/ dataset[i].building_type = filterType}

\* The place among the rows let through of the row at position i.
Rank(i) == Cardinality({j \in Matching : j <= i})

\* C13: a change of filterType or selectedMetric issues no fetch and leaves
\* page, limit, the rows loaded and the page count as they are; the rows
\* charted are exactly the rows of the loaded page whose building_type is
\* filterType (every row for 'all'), in the order of the page, each drawn with
\* its own value of the selected metric.
C13_FilterMetricClientSide ==
    /\ [](/\ Len(GetFilteredData) = Cardinality(Matching)
          /\ Len(LineGraph) = Cardinality(Matching)
          /\ \A i \in Matching :
                /\ GetFilteredData[Rank(i)] = dataset[i]
                /\ LineGraph[Rank(i)].value = dataset[i][selectedMetric]
                /\ LineGraph[Rank(i)].buildingType = dataset[i].building_type)
    /\ [][(filterType' # filterType \/ selectedMetric' # selectedMetric) =>
            UNCHANGED <<page, limit, dataset, totalPages, dsInFlight, dsLoading, dsError>>]_vars

\* Page 1 of three rows is loaded and nothing is pending; the filter has been
\* set to Residential and the metric to square_footage: the first and third
\* rows are charted, in that order.
C13_Witness ==
    /\ dsInFlight = <<>>
    /\ ~dsLoading
    /\ page = 1 /\ limit = 100 /\ totalPages = 2
    /\ dataset = <<RowA, RowB, RowC>>
    /\ filterType = "Residential"
    /\ selectedMetric = "square_footage"
    /\ ChartShown
    /\ GetFilteredData = <<RowA, RowC>>
    /\ Len(LineGraph) = 2
    /\ LineGraph[1].value = 1000 /\ LineGraph[2].value = 2000

-----------------------------------------------------------------------------
(* Claims about the loading flags (ViewsSpec)                              *)

\* C14: in either view loading is true in every state in which a request of
\* that view is still pending: no response clears the flag while another
\* request of the view is waiting for its own.
C14_LoadingWhilePending ==
    /\ inFlight # <<>> => loading
    /\ dsInFlight # <<>> => dsLoading

====
